---------------------------- MODULE Spec2Model ----------------------------
(***************************************************************************)
(* A model of gnews_mcp_server/handlers.py: the date normaliser            *)
(* validate_and_convert_date, the request gateway make_gnews_request and   *)
(* the two tool functions search_news and get_top_headlines.               *)
(*                                                                         *)
(* Python strings are TLA+ strings; Python values that may be None, a      *)
(* number or a container are tagged records (None, Str, Num, Dict, List).  *)
(* A Python call either returns a value or raises: Return(v) / Raise(t,m). *)
(***************************************************************************)
EXTENDS Integers, Sequences, FiniteSets, TLC

VARIABLES GNEWS_KEY, calls

vars == <<GNEWS_KEY, calls>>

----------------------------------------------------------------------------
(* Python values and call outcomes                                         *)

None == [t |-> "None"]

Str(s) == [t |-> "str", s |-> s]

Num(n) == [t |-> "int", n |-> n]

Dict(d) == [t |-> "dict", d |-> d]

List(l) == [t |-> "list", l |-> l]

EmptyDict == Dict([k \in {} |-> None])

Return(v) == [raised |-> FALSE, value |-> v]

Raise(type, msg) == [raised |-> TRUE, type |-> type, msg |-> msg]

(* bool(v): the truth value Python gives a value in `if v` and `not v`.    *)
Truthy(v) ==
    CASE v.t = "None" -> FALSE
      [] v.t = "str"  -> v.s # ""
      [] v.t = "int"  -> v.n # 0
      [] v.t = "dict" -> DOMAIN v.d # {}
      [] v.t = "list" -> v.l # <<>>

(* str(v) as an f-string renders it.                                       *)
PyStr(v) ==
    CASE v.t = "str"  -> v.s
      [] v.t = "int"  -> ToString(v.n)
      [] v.t = "None" -> "None"

----------------------------------------------------------------------------
(* Python str methods                                                      *)

Char(s, i) == SubSeq(s, i, i)

Chars(s) == {Char(s, i) : i \in 1..Len(s)}

AsciiLower == "abcdefghijklmnopqrstuvwxyz"

AsciiUpper == "ABCDEFGHIJKLMNOPQRSTUVWXYZ"

Digits == "0123456789"

Whitespace == {" ", "\t", "\n", "\r"}

(* str.isalpha over the ASCII repertoire of the model.                     *)
IsAlpha(s) == s # "" /\ Chars(s) \subseteq (Chars(AsciiLower) \cup Chars(AsciiUpper))

LowerChar(c) ==
    IF c \in Chars(AsciiUpper)
    THEN Char(AsciiLower, CHOOSE i \in 1..Len(AsciiUpper) : Char(AsciiUpper, i) = c)
    ELSE c

RECURSIVE Lower(_)
(* str.lower                                                               *)
Lower(s) == IF s = "" THEN "" ELSE LowerChar(Head(s)) \o Lower(Tail(s))

RECURSIVE LStrip(_)
LStrip(s) == IF s # "" /\ Head(s) \in Whitespace THEN LStrip(Tail(s)) ELSE s

RECURSIVE RStrip(_)
RStrip(s) ==
    IF s # "" /\ Char(s, Len(s)) \in Whitespace
    THEN RStrip(SubSeq(s, 1, Len(s) - 1))
    ELSE s

(* str.strip                                                               *)
Strip(s) == RStrip(LStrip(s))

(* `sub in s` for two strings.                                             *)
Contains(s, sub) ==
    \E i \in 1..(Len(s) - Len(sub) + 1) : SubSeq(s, i, i + Len(sub) - 1) = sub

RECURSIVE Join(_, _)
(* sep.join(seq)                                                           *)
Join(sep, seq) ==
    IF seq = <<>> THEN ""
    ELSE IF Len(seq) = 1 THEN seq[1]
    ELSE seq[1] \o sep \o Join(sep, Tail(seq))

----------------------------------------------------------------------------
(* datetime.strptime(date_str, "%Y-%m-%d") and                             *)
(* strftime("%Y-%m-%dT00:00:00.000Z")                                      *)

DigitChars == {"0", "1", "2", "3", "4", "5", "6", "7", "8", "9"}

NonZero == DigitChars \ {"0"}

DigitVal(c) == CHOOSE n \in 0..9 : Char(Digits, n + 1) = c

RECURSIVE ToInt(_)
(* int(s) of a string of digits.                                           *)
ToInt(s) ==
    IF s = "" THEN 0
    ELSE 10 * ToInt(SubSeq(s, 1, Len(s) - 1)) + DigitVal(Char(s, Len(s)))

(* The text at position p of s, n characters long ("" past the end).       *)
At(s, p, n) == IF p + n - 1 <= Len(s) THEN SubSeq(s, p, p + n - 1) ELSE ""

(* %Y is the pattern \d\d\d\d.                                             *)
IsYear(w) == Len(w) = 4 /\ \A i \in 1..4 : Char(w, i) \in DigitChars

(* %m is 1[0-2]|0[1-9]|[1-9]: its two-character and one-character forms.   *)
IsMonth2(w) ==
    /\ Len(w) = 2
    /\ \/ Head(w) = "1" /\ Tail(w) \in {"0", "1", "2"}
       \/ Head(w) = "0" /\ Tail(w) \in NonZero

IsMonth1(w) == w \in NonZero

(* %d is 3[0-1]|[1-2]\d|0[1-9]|[1-9]| [1-9].                               *)
IsDay2(w) ==
    /\ Len(w) = 2
    /\ \/ Head(w) = "3" /\ Tail(w) \in {"0", "1"}
       \/ Head(w) \in {"1", "2"} /\ Tail(w) \in DigitChars
       \/ Head(w) = "0" /\ Tail(w) \in NonZero

IsDay1(w) == w \in NonZero

IsDaySpace(w) == Len(w) = 2 /\ Head(w) = " " /\ Tail(w) \in NonZero

(* The length of the day the regex engine matches at p: the first          *)
(* alternative of %d that matches there; 0 when none does.                 *)
DayLen(s, p) ==
    IF IsDay2(At(s, p, 2)) THEN 2
    ELSE IF IsDay1(At(s, p, 1)) THEN 1
    ELSE IF IsDaySpace(At(s, p, 2)) THEN 2
    ELSE 0

(* The length of the month the regex engine settles on: the first          *)
(* alternative of %m after which "-" and a day follow; 0 when none.        *)
MonthLen(s) ==
    IF IsMonth2(At(s, 6, 2)) /\ At(s, 8, 1) = "-" /\ DayLen(s, 9) > 0 THEN 2
    ELSE IF IsMonth1(At(s, 6, 1)) /\ At(s, 7, 1) = "-" /\ DayLen(s, 8) > 0 THEN 1
    ELSE 0

IsLeap(y) == y % 4 = 0 /\ (y % 100 # 0 \/ y % 400 = 0)

DaysInMonth(y, m) ==
    IF m = 2 THEN (IF IsLeap(y) THEN 29 ELSE 28)
    ELSE IF m \in {4, 6, 9, 11} THEN 30 ELSE 31

(* datetime(Y, m, d): ValueError for a date that does not exist.           *)
MakeDate(Y, m, d) ==
    IF Y < 1 THEN Raise("ValueError", "year is out of range")
    ELSE IF d > DaysInMonth(Y, m) THEN Raise("ValueError", "day is out of range for month")
    ELSE Return([Y |-> Y, m |-> m, d |-> d])

(* The match found with a month of ml and a day of dl characters: text     *)
(* left over after it is an error, the fields are converted otherwise.     *)
ConvertMatch(s, ml, dl) ==
    IF 6 + ml + dl # Len(s) THEN Raise("ValueError", "unconverted data remains")
    ELSE MakeDate(ToInt(At(s, 1, 4)), ToInt(At(s, 6, ml)),
                  ToInt(LStrip(At(s, 7 + ml, dl))))

(* datetime.strptime(s, "%Y-%m-%d")                                        *)
Strptime(s) ==
    IF ~IsYear(At(s, 1, 4)) \/ At(s, 5, 1) # "-" \/ MonthLen(s) = 0
    THEN Raise("ValueError", "time data does not match format")
    ELSE ConvertMatch(s, MonthLen(s), DayLen(s, 7 + MonthLen(s)))

Pad2(n) == IF n < 10 THEN "0" \o ToString(n) ELSE ToString(n)

(* strftime: %m and %d are zero-padded to two digits; %Y is the year in    *)
(* decimal as the C library renders it (glibc does not pad it; the date    *)
(* strings of the model have years of four significant digits, where every *)
(* C library gives the same text).                                         *)
Strftime(dt) ==
    ToString(dt.Y) \o "-" \o Pad2(dt.m) \o "-" \o Pad2(dt.d) \o "T00:00:00.000Z"

(* Lines 34-42 given what strptime did.                                    *)
ConvertOrRaise(date_str, date_obj) ==
    IF date_obj.raised
    THEN Raise("ValueError",
               "Invalid date format: " \o date_str
                   \o ". Use YYYY-MM-DD format (e.g., 2024-01-15)")
    ELSE Return(Strftime(date_obj.value))

validate_and_convert_date(date_str) == ConvertOrRaise(date_str, Strptime(date_str))

----------------------------------------------------------------------------
(* Python container operations used by the handlers                        *)

TypeName(v) == IF v.t = "None" THEN "NoneType" ELSE v.t

(* `key in v` for a str key.                                               *)
PyIn(key, v) ==
    CASE v.t = "dict" -> Return(key \in DOMAIN v.d)
      [] v.t = "list" -> Return(\E i \in 1..Len(v.l) : v.l[i] = Str(key))
      [] v.t = "str"  -> Return(Contains(v.s, key))
      [] OTHER -> Raise("TypeError",
                        "argument of type '" \o TypeName(v) \o "' is not iterable")

(* v[key] for key a str.                                                   *)
PyGetItemStr(v, key) ==
    CASE v.t = "dict" ->
            IF key \in DOMAIN v.d THEN Return(v.d[key])
            ELSE Raise("KeyError", "'" \o key \o "'")
      [] v.t = "list" ->
            Raise("TypeError", "list indices must be integers or slices, not str")
      [] v.t = "str" ->
            Raise("TypeError", "string indices must be integers, not 'str'")
      [] OTHER ->
            Raise("TypeError", "'" \o TypeName(v) \o "' object is not subscriptable")

(* v[0]                                                                    *)
PyGetItem0(v) ==
    CASE v.t = "list" ->
            IF v.l # <<>> THEN Return(v.l[1])
            ELSE Raise("IndexError", "list index out of range")
      [] v.t = "str" ->
            IF v.s # "" THEN Return(Str(Head(v.s)))
            ELSE Raise("IndexError", "string index out of range")
      [] v.t = "dict" -> Raise("KeyError", "0")
      [] OTHER ->
            Raise("TypeError", "'" \o TypeName(v) \o "' object is not subscriptable")

(* v.get(key, default)                                                     *)
PyGet(v, key, default) ==
    IF v.t = "dict"
    THEN Return(IF key \in DOMAIN v.d THEN v.d[key] ELSE default)
    ELSE Raise("AttributeError",
               "'" \o TypeName(v) \o "' object has no attribute 'get'")

RECURSIVE SetToSeq(_)
SetToSeq(S) ==
    IF S = {} THEN <<>>
    ELSE LET x == CHOOSE y \in S : TRUE IN <<x>> \o SetToSeq(S \ {x})

(* The items a for loop over v visits.                                     *)
PyIter(v) ==
    CASE v.t = "list" -> Return(v.l)
      [] v.t = "dict" -> Return([i \in 1..Cardinality(DOMAIN v.d) |->
                                    Str(SetToSeq(DOMAIN v.d)[i])])
      [] v.t = "str"  -> Return([i \in 1..Len(v.s) |-> Str(Char(v.s, i))])
      [] OTHER -> Raise("TypeError", "'" \o TypeName(v) \o "' object is not iterable")

(* kwargs.get(key, default) on the keyword arguments of a call.            *)
KwGet(kwargs, key, default) ==
    IF key \in DOMAIN kwargs THEN kwargs[key] ELSE default

----------------------------------------------------------------------------
(* make_gnews_request                                                      *)

GNEWS_BASE_URL == "https://gnews.io/api/v4"

OK_STATUS == 200

KEY_ERROR == "GNews API key not set. Please set GNEWS_KEY environment variable."

(* make_gnews_request without the check of line 47.                        *)
GatewayStartUnchecked(key, endpoint, params) ==
    Return([url    |-> GNEWS_BASE_URL \o "/" \o endpoint,
            params |-> ("apikey" :> key) @@ params])

(* Lines 47-56: the credential check, params["apikey"] and the URL; the    *)
(* value returned is the GET that client.get is about to issue.            *)
GatewayStart(key, endpoint, params) ==
    IF ~Truthy(key)
    THEN Raise("ValueError", KEY_ERROR)
    ELSE Return([url    |-> GNEWS_BASE_URL \o "/" \o endpoint,
                 params |-> ("apikey" :> key) @@ params])

(* Lines 70-75 with the errors list of the body ignored.                   *)
ErrorMsgNoErrorsList(response, data) ==
    Return(Str(IF response.text # "" THEN response.text
               ELSE "HTTP " \o ToString(response.status_code)))

(* Lines 70-75: the message of the error raised for a non-200 reply.       *)
ErrorMsg(response, data) ==
    LET has == IF Truthy(data) THEN PyIn("errors", data) ELSE Return(FALSE) IN
    IF has.raised THEN has
    ELSE IF has.value
    THEN LET errs == PyGetItemStr(data, "errors") IN
         IF errs.raised THEN errs
         ELSE IF Truthy(errs.value) THEN PyGetItem0(errs.value)
         ELSE Return(Str("Unknown API error"))
    ELSE Return(Str(IF response.text # "" THEN response.text
                    ELSE "HTTP " \o ToString(response.status_code)))

(* Lines 62-78: what the body of the try block does with a response.       *)
HandleResponse(response) ==
    LET data == IF response.json.raised THEN None ELSE response.json.value IN
    IF response.status_code # OK_STATUS
    THEN LET error_msg == ErrorMsg(response, data) IN
         IF error_msg.raised THEN error_msg
         ELSE Raise("ValueError", "GNews API error: " \o PyStr(error_msg.value))
    ELSE Return(data)

(* Lines 82-85: `except Exception` around the try block.                   *)
ExceptException(e) ==
    IF Contains(e.msg, "GNews API error") \/ Contains(e.msg, "API key")
    THEN e
    ELSE Raise("ValueError", "Unexpected error: " \o e.msg)

(* Lines 80-81: `except httpx.RequestError`.                               *)
ExceptRequestError(cause) == Raise("ValueError", "Request error: " \o cause)

(* Lines 60-85 once client.get has returned a response.                    *)
GatewayReply(response) ==
    LET r == HandleResponse(response) IN
    IF r.raised THEN ExceptException(r) ELSE r

----------------------------------------------------------------------------
(* Response normalisation of search_news (159-179) and get_top_headlines   *)
(* (259-280)                                                               *)

NormalizeArticle(op, article) ==
    LET source == PyGet(article, "source", EmptyDict) IN
    IF source.raised THEN source
    ELSE LET name == PyGet(source.value, "name", None)
             get(k) == PyGet(article, k, None).value
             common == [title       |-> get("title"),
                        description |-> get("description"),
                        content     |-> get("content"),
                        url         |-> get("url"),
                        image       |-> get("image"),
                        publishedAt |-> get("publishedAt"),
                        source      |-> Dict([name |-> name.value,
                                              url  |-> PyGet(source.value, "url", None).value])]
         IN  IF name.raised THEN name
             ELSE Return(Dict(IF op = "get_top_headlines"
                              THEN ("language" :> get("lang")) @@ common
                              ELSE common))

Normalize(op, response) ==
    LET articles == PyGet(response, "articles", List(<<>>)) IN
    IF articles.raised THEN articles
    ELSE LET items == PyIter(articles.value) IN
         IF items.raised THEN items
         ELSE LET each == [i \in 1..Len(items.value) |->
                              NormalizeArticle(op, items.value[i])]
                  bad  == {i \in 1..Len(each) : each[i].raised}
                  normalized_articles == [i \in 1..Len(each) |-> each[i].value]
              IN  IF bad # {}
                  THEN each[CHOOSE i \in bad : \A j \in bad : i <= j]
                  ELSE Return(Dict(
                         [total_articles |->
                              PyGet(response, "totalArticles",
                                    Num(Len(normalized_articles))).value,
                          articles |-> List(normalized_articles)]))

----------------------------------------------------------------------------
(* Parameter validation and assembly of the two tool functions             *)

NoParams == [k \in {} |-> None]

(* `if v: params[name] = w`                                                *)
OptParam(name, v, w) == IF Truthy(v) THEN name :> w ELSE NoParams

(* The date handed on as the caller wrote it, never converted.             *)
ApiDateUnconverted(d) == IF Truthy(d) THEN Return(d) ELSE Return(None)

(* Lines 120-125 and 224-229: `if d: api_d = validate_and_convert_date(d)`,*)
(* api_d staying None otherwise.                                           *)
ApiDate(d) ==
    IF Truthy(d)
    THEN LET r == validate_and_convert_date(d.s) IN
         IF r.raised THEN r ELSE Return(Str(r.value))
    ELSE Return(None)

(* Lines 132 and 232: the language check.                                  *)
BadLanguage(language) == Len(language) # 2 \/ ~IsAlpha(language)

(* Lines 136 and 236: the country check.                                   *)
BadCountry(country) ==
    Truthy(country) /\ (Len(country.s) # 2 \/ ~IsAlpha(country.s))

(* The lang parameter without .lower().                                    *)
LangParamAsGiven(language) == Str(language)

(* Lines 142 and 242: the lang parameter.                                  *)
LangParam(language) == Str(Lower(language))

(* Lines 149-154 and 247-252: the optional country, from and to.           *)
OptionalParams(country, api_start_date, api_end_date) ==
    OptParam("country", country,
             IF country.t = "str" THEN Str(Lower(country.s)) ELSE country)
        @@ OptParam("from", api_start_date, api_start_date)
        @@ OptParam("to", api_end_date, api_end_date)

SORT_VALUES == {"publishedAt", "relevance"}

(* The messages of the ValueErrors the two tool functions raise.           *)
QUERY_ERROR == "Search query 'query' is required and cannot be empty"

SORTBY_ERROR == "'sortby' must be 'publishedAt' or 'relevance'"

LANGUAGE_ERROR == "'language' must be a 2-letter language code"

COUNTRY_ERROR == "'country' must be a 2-letter country code"

MAX_ARTICLES == 10

(* search_news with the sort field checked before the dates are converted. *)
search_news_params_SortFirst(query, language, country, kwargs) ==
    LET in_attr    == KwGet(kwargs, "in", Str("title,description"))
        sort_by    == KwGet(kwargs, "sort_by", Str("publishedAt"))
        api_start_date == ApiDate(KwGet(kwargs, "start_date", None))
        api_end_date   == ApiDate(KwGet(kwargs, "end_date", None))
    IN  IF ~Truthy(query) \/ Strip(query.s) = ""
        THEN Raise("ValueError", QUERY_ERROR)
        ELSE IF ~Truthy(sort_by) \/ ~(sort_by.t = "str" /\ sort_by.s \in SORT_VALUES)
        THEN Raise("ValueError", SORTBY_ERROR)
        ELSE IF api_start_date.raised THEN api_start_date
        ELSE IF api_end_date.raised THEN api_end_date
        ELSE IF BadLanguage(language)
        THEN Raise("ValueError", LANGUAGE_ERROR)
        ELSE IF BadCountry(country)
        THEN Raise("ValueError", COUNTRY_ERROR)
        ELSE Return(OptionalParams(country, api_start_date.value, api_end_date.value)
                    @@ [q      |-> Str(Strip(query.s)),
                        lang   |-> LangParam(language),
                        max    |-> Num(MAX_ARTICLES),
                        in     |-> in_attr,
                        sortby |-> sort_by])

(* search_news, lines 106-154: the error raised by validation, or the      *)
(* params handed to make_gnews_request.                                    *)
search_news_params(query, language, country, kwargs) ==
    LET max_articles == MAX_ARTICLES
        in_attr    == KwGet(kwargs, "in", Str("title,description"))
        start_date == KwGet(kwargs, "start_date", None)
        end_date   == KwGet(kwargs, "end_date", None)
        sort_by    == KwGet(kwargs, "sort_by", Str("publishedAt"))
        api_start_date == ApiDate(start_date)
        api_end_date   == ApiDate(end_date)
    IN  IF ~Truthy(query) \/ Strip(query.s) = ""
        THEN Raise("ValueError", QUERY_ERROR)
        ELSE IF api_start_date.raised THEN api_start_date
        ELSE IF api_end_date.raised THEN api_end_date
        ELSE IF ~Truthy(sort_by) \/ ~(sort_by.t = "str" /\ sort_by.s \in SORT_VALUES)
        THEN Raise("ValueError", SORTBY_ERROR)
        ELSE IF BadLanguage(language)
        THEN Raise("ValueError", LANGUAGE_ERROR)
        ELSE IF BadCountry(country)
        THEN Raise("ValueError", COUNTRY_ERROR)
        ELSE Return(OptionalParams(country, api_start_date.value, api_end_date.value)
                    @@ [q      |-> Str(Strip(query.s)),
                        lang   |-> LangParam(language),
                        max    |-> Num(max_articles),
                        in     |-> in_attr,
                        sortby |-> sort_by])

valid_categories ==
    <<"general", "world", "nation", "business", "technology",
      "entertainment", "sports", "science", "health">>

CATEGORY_ERROR == "'category' must be one of: " \o Join(", ", valid_categories)

(* get_top_headlines, lines 205-254.                                       *)
get_top_headlines_params(category, language, country, start_date, end_date, query, kwargs) ==
    LET max_articles == MAX_ARTICLES
        api_start_date == ApiDate(start_date)
        api_end_date   == ApiDate(end_date)
    IN  IF ~(category.t = "str" /\ \E i \in 1..Len(valid_categories) :
                                        valid_categories[i] = category.s)
        THEN Raise("ValueError", CATEGORY_ERROR)
        ELSE IF api_start_date.raised THEN api_start_date
        ELSE IF api_end_date.raised THEN api_end_date
        ELSE IF BadLanguage(language)
        THEN Raise("ValueError", LANGUAGE_ERROR)
        ELSE IF BadCountry(country)
        THEN Raise("ValueError", COUNTRY_ERROR)
        ELSE Return(OptParam("q", query,
                             IF query.t = "str" THEN Str(Strip(query.s)) ELSE query)
                    @@ OptionalParams(country, api_start_date.value, api_end_date.value)
                    @@ [category |-> category,
                        lang     |-> LangParam(language),
                        max      |-> Num(max_articles)])

----------------------------------------------------------------------------
(* Invocations.  calls[i] is one invocation slot of the caller: idle,      *)
(* awaiting (suspended in `await client.get`) or done (returned/raised).   *)
(* sent is the sequence of GETs the invocation has issued.                 *)

NoResponse == [kind |-> "none"]

NoResult == [pending |-> TRUE]

Idle ==
    [pc |-> "idle", op |-> "", args |-> NoParams, sent |-> <<>>,
     response |-> NoResponse, result |-> NoResult]

(* A tool function up to its first suspension point: validation raised,    *)
(* make_gnews_request raised for the missing key, or the GET is issued.    *)
Begin(key, op, endpoint, args, built) ==
    LET req == IF built.raised THEN built
               ELSE GatewayStart(key, endpoint, built.value)
    IN  IF req.raised
        THEN [pc |-> "done", op |-> op, args |-> args, sent |-> <<>>,
              response |-> NoResponse, result |-> req]
        ELSE [pc |-> "awaiting", op |-> op, args |-> args, sent |-> <<req.value>>,
              response |-> NoResponse, result |-> NoResult]

(* client.get returned: the rest of make_gnews_request, then the           *)
(* normalisation of the tool function.                                     *)
OnResponse(c, response) ==
    LET data == GatewayReply(response) IN
    [c EXCEPT !.pc = "done",
              !.response = response,
              !.result = IF data.raised THEN data ELSE Normalize(c.op, data.value)]

(* client.get raised httpx.RequestError and the GET is issued once more.   *)
OnRequestErrorRetry(c, cause) == [c EXCEPT !.sent = c.sent \o c.sent]

(* client.get raised httpx.RequestError.                                   *)
OnRequestError(c, cause) ==
    [c EXCEPT !.pc = "done",
              !.response = [kind |-> "error", cause |-> cause],
              !.result = ExceptRequestError(cause)]

----------------------------------------------------------------------------
(* Actions                                                                 *)

(* What an httpx.RequestError says.                                        *)
Causes == {"All connection attempts failed", "timed out"}

SearchNews(i, Args) ==
    /\ calls[i].pc = "idle"
    /\ \E a \in Args :
          calls' = [calls EXCEPT ![i] =
                       Begin(GNEWS_KEY, "search_news", "search", a,
                             search_news_params(a.query, a.language, a.country,
                                                a.kwargs))]
    /\ UNCHANGED GNEWS_KEY

GetTopHeadlines(i, Args) ==
    /\ calls[i].pc = "idle"
    /\ \E a \in Args :
          calls' = [calls EXCEPT ![i] =
                       Begin(GNEWS_KEY, "get_top_headlines", "top-headlines", a,
                             get_top_headlines_params(a.category, a.language, a.country,
                                                      a.start_date, a.end_date, a.query,
                                                      a.kwargs))]
    /\ UNCHANGED GNEWS_KEY

(* The upstream service answers the GET of invocation i.                   *)
Respond(i, Rs) ==
    /\ calls[i].pc = "awaiting"
    /\ \E response \in Rs :
          calls' = [calls EXCEPT ![i] = OnResponse(calls[i], response)]
    /\ UNCHANGED GNEWS_KEY

(* The GET of invocation i fails in the transport.                         *)
RequestError(i) ==
    /\ calls[i].pc = "awaiting"
    /\ \E cause \in Causes :
          calls' = [calls EXCEPT ![i] = OnRequestError(calls[i], cause)]
    /\ UNCHANGED GNEWS_KEY

(* A direct call of the date normaliser.                                   *)
ValidateAndConvertDate(i, Inputs) ==
    /\ calls[i].pc = "idle"
    /\ \E date_str \in Inputs :
          calls' = [calls EXCEPT ![i] =
                       [pc |-> "done", op |-> "validate_and_convert_date",
                        args |-> [date_str |-> date_str], sent |-> <<>>,
                        response |-> NoResponse,
                        result |-> validate_and_convert_date(date_str)]]
    /\ UNCHANGED GNEWS_KEY

(* The caller takes the outcome; the slot is free for the next call.       *)
Finish(i) ==
    /\ calls[i].pc = "done"
    /\ calls' = [calls EXCEPT ![i] = Idle]
    /\ UNCHANGED GNEWS_KEY

----------------------------------------------------------------------------
(* Inputs                                                                  *)

Absent == [t |-> "absent"]

(* The keyword argument name=v, or nothing when the caller leaves it out.  *)
Kw(name, v) == IF v = Absent THEN NoParams ELSE name :> v

Keys == {None, Str(""), Str("k3y")}

SearchQueries == {Str(""), Str("   "), Str("ai"), Str(" ai ")}

HeadlineQueries == {None, Str(""), Str("   "), Str(" ai ")}

Languages == {"en", "FR", "eng", "e1"}

Countries == {None, Str(""), Str("US"), Str("usa"), Str("u1")}

StartDates == {Str(""), Str("2024-01-01"), Str("2024-1-5"), Str("2024-13-01")}

EndDates == {Str("2024-12-31"), Str("2024-02-30")}

SortBys == {None, Str("relevance"), Str("bogus")}

SearchExtras ==
    {NoParams, "max" :> Num(5), "in" :> Str("title"), "sortby" :> Str("bogus")}

Categories == {Str("general"), Str("business"), Str("politics")}

SearchArgs ==
    {[query |-> q, language |-> l, country |-> c,
      kwargs |-> Kw("start_date", sd) @@ Kw("end_date", ed) @@ Kw("sort_by", sb) @@ x] :
        q \in SearchQueries, l \in Languages, c \in Countries,
        sd \in StartDates \cup {Absent}, ed \in EndDates \cup {Absent},
        sb \in SortBys \cup {Absent}, x \in SearchExtras}

HeadlineArgs ==
    {[category |-> cat, language |-> l, country |-> c, start_date |-> sd,
      end_date |-> ed, query |-> q, kwargs |-> x] :
        cat \in Categories, l \in Languages, c \in Countries,
        sd \in StartDates \cup {None}, ed \in EndDates \cup {None},
        q \in HeadlineQueries, x \in {NoParams, "max" :> Num(5)}}

Statuses == {200, 403, 500}

Unparsable == Raise("JSONDecodeError", "Expecting value")

FullArticle ==
    Dict([title |-> Str("t1"), description |-> Str("d1"), content |-> None,
          url |-> Str("u1"), image |-> None, publishedAt |-> Str("2024-01-01T10:00:00Z"),
          lang |-> Str("en"),
          source |-> Dict([name |-> Str("n1"), url |-> Str("s1")])])

(* A reply with two articles, the second with nothing but a title.         *)
FullBody ==
    [text |-> "{\"totalArticles\":7,\"articles\":[{...},{\"title\":\"t2\"}]}",
     json |-> Return(Dict([totalArticles |-> Num(7),
                           articles |-> List(<<FullArticle,
                                               Dict([title |-> Str("t2")])>>)]))]

(* Response bodies: the text and what response.json() makes of it.         *)
Bodies ==
    { [text |-> "", json |-> Unparsable],
      [text |-> "<html>Bad Gateway</html>", json |-> Unparsable],
      [text |-> "{\"errors\":[\"invalid api key\"]}",
       json |-> Return(Dict([errors |-> List(<<Str("invalid api key")>>)]))],
      [text |-> "{\"errors\":[]}", json |-> Return(Dict([errors |-> List(<<>>)]))],
      [text |-> "{\"errors\":{\"q\":\"required\"}}",
       json |-> Return(Dict([errors |-> Dict([q |-> Str("required")])]))],
      [text |-> "{}", json |-> Return(EmptyDict)],
      FullBody,
      [text |-> "{\"articles\":[{\"title\":\"t3\",\"source\":null}]}",
       json |-> Return(Dict([articles |->
                                List(<<Dict([title |-> Str("t3"), source |-> None])>>)]))],
      [text |-> "[]", json |-> Return(List(<<>>))],
      [text |-> "[\"errors\"]", json |-> Return(List(<<Str("errors")>>))],
      [text |-> "null", json |-> Return(None)] }

Responses ==
    {[kind |-> "http", status_code |-> st, text |-> b.text, json |-> b.json] :
        st \in Statuses, b \in Bodies}

YearTexts == {"2024", "2023", "1900", "2000", "0000", "24"}

MonthTexts == {"01", "1", "02", "2", "04", "12", "13", "00"}

DayTexts == {"01", "1", " 1", "29", "30", "31", "32", "00"}

DateInputs ==
    {h \o y \o sep \o m \o sep \o d \o tl :
        h \in {"", " "}, y \in YearTexts, sep \in {"-", "/"}, m \in MonthTexts,
        d \in DayTexts, tl \in {"", "x", " "}}
    \cup {"", "today", "2024-01-15T00:00:00.000Z", "01-15-2024"}

----------------------------------------------------------------------------
(* Spec: one caller slot, any arguments, any upstream behaviour.           *)

Slots == {1}

Init ==
    /\ GNEWS_KEY \in Keys
    /\ calls = [i \in Slots |-> Idle]

Next ==
    \/ \E i \in Slots : SearchNews(i, SearchArgs)
    \/ \E i \in Slots : GetTopHeadlines(i, HeadlineArgs)
    \/ \E i \in Slots : Respond(i, Responses)
    \/ \E i \in Slots : RequestError(i)
    \/ \E i \in Slots : Finish(i)

Spec == Init /\ [][Next]_vars

(* SpecDate: the date normaliser applied to date strings.                  *)

InitDate ==
    /\ GNEWS_KEY = None
    /\ calls = [i \in Slots |-> Idle]

NextDate ==
    \/ \E i \in Slots : ValidateAndConvertDate(i, DateInputs)
    \/ \E i \in Slots : Finish(i)

SpecDate == InitDate /\ [][NextDate]_vars

(* SpecConc: NumCalls invocations in flight at once.                       *)

NumCalls == 2

Procs == 1..NumCalls

ConcSearchArgs ==
    {[query |-> q, language |-> "en", country |-> None,
      kwargs |-> Kw("start_date", Str("2024-01-01"))] : q \in {Str("ai"), Str("")}}

ConcHeadlineArgs ==
    {[category |-> cat, language |-> "FR", country |-> Str("US"), start_date |-> None,
      end_date |-> None, query |-> Str(" ai "), kwargs |-> NoParams] :
        cat \in {Str("sports"), Str("politics")}}

ConcResponses ==
    {r \in Responses :
        \/ r.status_code = 200 /\ r.text = FullBody.text
        \/ r.status_code = 500 /\ r.text = ""}

InitConc ==
    /\ GNEWS_KEY \in {None, Str("k3y")}
    /\ calls = [i \in Procs |-> Idle]

NextConc ==
    \/ \E i \in Procs : SearchNews(i, ConcSearchArgs)
    \/ \E i \in Procs : GetTopHeadlines(i, ConcHeadlineArgs)
    \/ \E i \in Procs : Respond(i, ConcResponses)
    \/ \E i \in Procs : RequestError(i)
    \/ \E i \in Procs : Finish(i)

SpecConc == InitConc /\ [][NextConc]_vars

----------------------------------------------------------------------------
(* Vocabulary of the properties                                            *)

StartsWith(s, prefix) ==
    Len(s) >= Len(prefix) /\ SubSeq(s, 1, Len(prefix)) = prefix

ValidationMessages ==
    {QUERY_ERROR, SORTBY_ERROR, LANGUAGE_ERROR, COUNTRY_ERROR, CATEGORY_ERROR}

(* The error kind of a raised outcome: the handlers raise ValueError for   *)
(* every kind and tell them apart by the message.                          *)
KindOf(r) ==
    IF r.type # "ValueError" THEN r.type
    ELSE IF r.msg \in ValidationMessages THEN "ValidationError"
    ELSE IF StartsWith(r.msg, "Invalid date format: ") THEN "InvalidDate"
    ELSE IF r.msg = KEY_ERROR THEN "MissingCredential"
    ELSE IF StartsWith(r.msg, "GNews API error: ") THEN "UpstreamError"
    ELSE IF StartsWith(r.msg, "Request error: ") THEN "TransportError"
    ELSE "Unexpected"

ToolOps == {"search_news", "get_top_headlines"}

(* The invocations of the tool functions that are under way or finished.   *)
Invocations == {i \in DOMAIN calls : calls[i].op \in ToolOps}

Finished == {i \in Invocations : calls[i].pc = "done"}

Failed(i, kind) == calls[i].result.raised /\ KindOf(calls[i].result) = kind

(* The arguments as the caller gave them.                                  *)
StartDateOf(c) ==
    IF c.op = "search_news" THEN KwGet(c.args.kwargs, "start_date", None)
    ELSE c.args.start_date

EndDateOf(c) ==
    IF c.op = "search_news" THEN KwGet(c.args.kwargs, "end_date", None)
    ELSE c.args.end_date

SortByOf(c) == KwGet(c.args.kwargs, "sort_by", Str("publishedAt"))

(* What each argument has to satisfy for a call to reach the gateway.      *)
QueryOk(c) ==
    c.op = "search_news" => Truthy(c.args.query) /\ Strip(c.args.query.s) # ""

CategoryOk(c) ==
    c.op = "get_top_headlines" =>
        c.args.category.t = "str" /\ c.args.category.s \in
            {"general", "world", "nation", "business", "technology",
             "entertainment", "sports", "science", "health"}

DateOk(d) == Truthy(d) => ~validate_and_convert_date(d.s).raised

SortOk(c) ==
    c.op = "search_news" => SortByOf(c).t = "str" /\ SortByOf(c).s \in SORT_VALUES

TwoLetters(s) == Len(s) = 2 /\ Chars(s) \subseteq (Chars(AsciiLower) \cup Chars(AsciiUpper))

LanguageOk(c) == TwoLetters(c.args.language)

CountryOk(c) == Truthy(c.args.country) => TwoLetters(c.args.country.s)

ArgsPass(c) ==
    /\ QueryOk(c) /\ CategoryOk(c) /\ DateOk(StartDateOf(c)) /\ DateOk(EndDateOf(c))
    /\ SortOk(c) /\ LanguageOk(c) /\ CountryOk(c)

NoKey == ~Truthy(GNEWS_KEY)

----------------------------------------------------------------------------
(* C1 as stated: with no credential configured, every invocation, whatever *)
(* its arguments, ends in MissingCredential and issues no HTTP request.    *)
C1_AsStated ==
    NoKey => \A i \in Invocations :
                /\ calls[i].sent = <<>>
                /\ calls[i].pc = "done" => Failed(i, "MissingCredential")

(* C1 as amended: with no credential configured no invocation issues an    *)
(* HTTP request and every invocation fails: with MissingCredential when    *)
(* its arguments pass validation, and with the validation failure          *)
(* (ValidationError or InvalidDate) when they do not.                      *)
C1_NoKeyNoRequest ==
    NoKey => \A i \in Invocations :
                /\ calls[i].sent = <<>>
                /\ calls[i].pc = "done"
                /\ calls[i].result.raised
                /\ IF ArgsPass(calls[i])
                   THEN KindOf(calls[i].result) = "MissingCredential"
                   ELSE KindOf(calls[i].result) \in {"ValidationError", "InvalidDate"}

C1_Witness ==
    /\ NoKey
    /\ \E i \in Finished :
          /\ calls[i].op = "search_news"
          /\ ArgsPass(calls[i])
          /\ Failed(i, "MissingCredential")

----------------------------------------------------------------------------
(* A sort value the caller gave under one of the two names and that is not *)
(* one of the two allowed strings.                                         *)
BadSortGiven(c) ==
    \E name \in {"sortby", "sort_by"} :
        /\ name \in DOMAIN c.args.kwargs
        /\ ~(c.args.kwargs[name].t = "str" /\ c.args.kwargs[name].s \in SORT_VALUES)

(* C2 as stated: search_news with a non-empty query and a sort value,      *)
(* given as sortby or as sort_by, that is not "publishedAt" or "relevance" *)
(* fails with ValidationError and issues no HTTP request.                  *)
C2_AsStated ==
    \A i \in Invocations :
        (calls[i].op = "search_news" /\ QueryOk(calls[i]) /\ BadSortGiven(calls[i]))
            => /\ calls[i].pc = "done"
               /\ calls[i].sent = <<>>
               /\ Failed(i, "ValidationError")

----------------------------------------------------------------------------
(* The invocations that got a reply with a status other than 200.          *)
Refused ==
    {i \in Finished : calls[i].response.kind = "http"
                        /\ calls[i].response.status_code # 200}

(* The message an UpstreamError carries after its fixed prefix.            *)
UpstreamMessage(r) == SubSeq(r.msg, Len("GNews API error: ") + 1, Len(r.msg))

IsObject(r) == ~r.json.raised /\ r.json.value.t = "dict"

HasErrors(r) == IsObject(r) /\ "errors" \in DOMAIN r.json.value.d

ErrorsOf(r) == r.json.value.d["errors"]

HasFirstError(r) == HasErrors(r) /\ ErrorsOf(r).t = "list" /\ ErrorsOf(r).l # <<>>

TextOrStatus(r) == IF r.text # "" THEN r.text ELSE "HTTP " \o ToString(r.status_code)

PlainBody(r) == r.json.raised \/ (IsObject(r) /\ (HasErrors(r) => ErrorsOf(r).t = "list"))

----------------------------------------------------------------------------
(* The message of the InvalidDate failure for a date string.               *)
DateError(d) ==
    "Invalid date format: " \o d.s \o ". Use YYYY-MM-DD format (e.g., 2024-01-15)"

Rejected == {i \in Invocations : calls[i].op = "search_news" /\ ~ArgsPass(calls[i])}

(* C4 as stated: search_news checks query, sort field, language, country   *)
(* and then the dates; a call with several invalid arguments fails with    *)
(* the failure of the earliest invalid one in that order.                  *)
C4_AsStated ==
    \A i \in Rejected :
        LET c == calls[i] IN
        /\ c.pc = "done"
        /\ c.result.raised
        /\ c.result.msg =
              (IF ~QueryOk(c) THEN QUERY_ERROR
               ELSE IF ~SortOk(c) THEN SORTBY_ERROR
               ELSE IF ~LanguageOk(c) THEN LANGUAGE_ERROR
               ELSE IF ~CountryOk(c) THEN COUNTRY_ERROR
               ELSE IF ~DateOk(StartDateOf(c)) THEN DateError(StartDateOf(c))
               ELSE DateError(EndDateOf(c)))

(* C4 as amended: search_news checks query, start_date, end_date, sort     *)
(* field (sort_by), language and country, in that order; a call with       *)
(* several invalid arguments fails with the failure of the earliest        *)
(* invalid one in that order (an invalid sort value together with a        *)
(* malformed start_date yields InvalidDate).                               *)
C4_CheckOrder ==
    \A i \in Rejected :
        LET c == calls[i] IN
        /\ c.pc = "done"
        /\ c.result.raised
        /\ c.result.msg =
              (IF ~QueryOk(c) THEN QUERY_ERROR
               ELSE IF ~DateOk(StartDateOf(c)) THEN DateError(StartDateOf(c))
               ELSE IF ~DateOk(EndDateOf(c)) THEN DateError(EndDateOf(c))
               ELSE IF ~SortOk(c) THEN SORTBY_ERROR
               ELSE IF ~LanguageOk(c) THEN LANGUAGE_ERROR
               ELSE COUNTRY_ERROR)

C4_Witness ==
    \E i \in Rejected :
        /\ QueryOk(calls[i])
        /\ ~SortOk(calls[i])
        /\ ~DateOk(StartDateOf(calls[i]))
        /\ calls[i].pc = "done"
        /\ Failed(i, "InvalidDate")

----------------------------------------------------------------------------
ErrorKinds ==
    {"ValidationError", "InvalidDate", "MissingCredential", "UpstreamError",
     "TransportError"}

(* A complete envelope: total_articles and a list of articles.             *)
IsEnvelope(v) ==
    /\ v.t = "dict"
    /\ DOMAIN v.d = {"total_articles", "articles"}
    /\ v.d["articles"].t = "list"

(* C5 as stated: every invocation ends by returning a complete envelope or *)
(* by failing with one of the five error kinds, whatever the upstream      *)
(* replies; no other failure escapes.                                      *)
C5_AsStated ==
    \A i \in Finished :
        IF calls[i].result.raised
        THEN KindOf(calls[i].result) \in ErrorKinds
        ELSE IsEnvelope(calls[i].result.value)

----------------------------------------------------------------------------
(* The GETs an invocation has issued.                                      *)
Requests(i) == {calls[i].sent[k] : k \in 1..Len(calls[i].sent)}

Supplied(d) == d.t # "None"

Rejects(d) == validate_and_convert_date(d.s).raised

Normalized(d) == Str(validate_and_convert_date(d.s).value)

(* C6 as stated, for one of the two dates d and its parameter key.         *)
DateAsStated(i, d, key) ==
    /\ (Supplied(d) /\ Rejects(d))
          => /\ calls[i].pc = "done"
             /\ calls[i].sent = <<>>
             /\ Failed(i, "InvalidDate")
    /\ \A req \in Requests(i) :
          /\ key \notin DOMAIN req.params <=> ~Supplied(d)
          /\ key \in DOMAIN req.params => req.params[key] = Normalized(d)

(* C6 as stated: in both operations a supplied start_date (end_date) that  *)
(* is not a valid date, the empty string included, fails with InvalidDate  *)
(* and no HTTP request; otherwise from (to) is the normalized timestamp;   *)
(* from (to) is absent exactly when the date was not supplied.             *)
C6_AsStated ==
    \A i \in Invocations :
        /\ DateAsStated(i, StartDateOf(calls[i]), "from")
        /\ DateAsStated(i, EndDateOf(calls[i]), "to")

DateRule(i, d, key) ==
    /\ (Truthy(d) /\ Rejects(d) /\ QueryOk(calls[i]) /\ CategoryOk(calls[i]))
          => /\ calls[i].pc = "done"
             /\ calls[i].sent = <<>>
             /\ Failed(i, "InvalidDate")
    /\ \A req \in Requests(i) :
          /\ key \notin DOMAIN req.params <=> ~Truthy(d)
          /\ key \in DOMAIN req.params
                => ~Rejects(d) /\ req.params[key] = Normalized(d)

(* C6 as amended: in both operations, whenever start_date (end_date) is    *)
(* supplied as a non-empty string and the check that precedes the dates    *)
(* passes (the query in search_news, the category in get_top_headlines),   *)
(* it is validated by the Date Normalizer: if the normalizer rejects it    *)
(* the operation fails with InvalidDate and issues no HTTP request, and    *)
(* otherwise every request issued carries from (to) equal to the           *)
(* normalized timestamp.  from (to) is absent from the outgoing parameters *)
(* exactly when the date was not supplied or is the empty string.          *)
C6_DatesNormalized ==
    \A i \in Invocations :
        /\ DateRule(i, StartDateOf(calls[i]), "from")
        /\ DateRule(i, EndDateOf(calls[i]), "to")

C6_Witness ==
    \E i \in Invocations :
        /\ StartDateOf(calls[i]) = Str("")
        /\ EndDateOf(calls[i]) = Str("2024-12-31")
        /\ \E req \in Requests(i) :
              /\ "from" \notin DOMAIN req.params
              /\ "to" \in DOMAIN req.params
              /\ req.params["to"] = Str("2024-12-31T00:00:00.000Z")

----------------------------------------------------------------------------
TwoLowercase(v) == v.t = "str" /\ Len(v.s) = 2 /\ Chars(v.s) \subseteq Chars(AsciiLower)

(* What C7 says of every outgoing request.                                 *)
ShapedRequests(i) ==
    \A req \in Requests(i) :
        /\ req.params["max"] = Num(10)
        /\ TwoLowercase(req.params["lang"])
        /\ "country" \in DOMAIN req.params => TwoLowercase(req.params["country"])
        /\ calls[i].op = "get_top_headlines"
              => "category" \in DOMAIN req.params /\ CategoryOk(calls[i])
                   /\ req.params["category"] = calls[i].args.category

Misshapen(c) == ~LanguageOk(c) \/ ~CountryOk(c) \/ ~CategoryOk(c)

----------------------------------------------------------------------------
(* A valid calendar date written exactly as YYYY-MM-DD.                    *)
StrictDate(s) ==
    /\ Len(s) = 10
    /\ \A k \in {1, 2, 3, 4, 6, 7, 9, 10} : Char(s, k) \in DigitChars
    /\ Char(s, 5) = "-" /\ Char(s, 8) = "-"
    /\ ToInt(SubSeq(s, 1, 4)) >= 1
    /\ ToInt(SubSeq(s, 6, 7)) \in 1..12
    /\ ToInt(SubSeq(s, 9, 10)) >= 1
    /\ ToInt(SubSeq(s, 9, 10)) <= DaysInMonth(ToInt(SubSeq(s, 1, 4)), ToInt(SubSeq(s, 6, 7)))

(* C8 as stated: the Date Normalizer returns YYYY-MM-DDT00:00:00.000Z for  *)
(* every valid calendar date written exactly as YYYY-MM-DD and fails with  *)
(* InvalidDate for every other string ("2024-1-5" among them).             *)
C8_AsStated ==
    \A i \in DOMAIN calls :
        (calls[i].op = "validate_and_convert_date" /\ calls[i].pc = "done")
            => IF StrictDate(calls[i].args.date_str)
               THEN calls[i].result = Return(calls[i].args.date_str \o "T00:00:00.000Z")
               ELSE calls[i].result.raised /\ KindOf(calls[i].result) = "InvalidDate"

----------------------------------------------------------------------------
(* C9: an invocation issues at most one GET: exactly one when its          *)
(* arguments pass validation and a credential is configured, none          *)
(* otherwise; a transport failure or a reply that is not 200 ends it with  *)
(* a failure and no second GET; and with other invocations in flight the   *)
(* GET it issued stays the one its own arguments determine and its failure *)
(* the one of its own reply.                                               *)
C9_OneRequest ==
    \A i \in Invocations :
        LET c == calls[i] IN
        /\ Len(c.sent) <= 1
        /\ Len(c.sent) = 1 <=> (ArgsPass(c) /\ ~NoKey)
        /\ c.pc = "awaiting" => Len(c.sent) = 1
        /\ \A req \in Requests(i) :
              /\ req.url = (IF c.op = "search_news" THEN "https://gnews.io/api/v4/search"
                            ELSE "https://gnews.io/api/v4/top-headlines")
              /\ req.params["apikey"] = GNEWS_KEY
              /\ req.params["lang"].s = Lower(c.args.language)
              /\ c.op = "search_news" => req.params["q"].s = Strip(c.args.query.s)
              /\ c.op = "get_top_headlines" => req.params["category"] = c.args.category
        /\ (c.pc = "done" /\ c.response.kind = "error")
              => c.result = Raise("ValueError", "Request error: " \o c.response.cause)
        /\ (c.pc = "done" /\ c.response.kind = "http" /\ c.response.status_code # 200)
              => c.result.raised
        /\ (c.pc = "done" /\ c.response.kind = "http" /\ c.response.status_code = 200)
              => ~c.result.raised

(* Two invocations that have each issued their one GET, one of them ended  *)
(* by a transport failure while the other still waits.                     *)
C9_Witness ==
    \E i, j \in Invocations :
        /\ i # j
        /\ calls[i].op # calls[j].op
        /\ calls[i].pc = "done" /\ calls[i].response.kind = "error"
        /\ Len(calls[i].sent) = 1
        /\ calls[j].pc = "awaiting" /\ Len(calls[j].sent) = 1

----------------------------------------------------------------------------
(* C10 as stated: no request carries an empty q: search_news always sends  *)
(* a non-empty trimmed q, and get_top_headlines sends q only when a query  *)
(* was given and then as a non-empty trimmed string.                       *)
C10_AsStated ==
    \A i \in Invocations :
        \A req \in Requests(i) :
            /\ calls[i].op = "search_news" => "q" \in DOMAIN req.params
            /\ "q" \in DOMAIN req.params
                  => /\ Supplied(calls[i].args.query)
                     /\ req.params["q"].s # ""
                     /\ req.params["q"].s = Strip(calls[i].args.query.s)

============================================================================
